---- MODULE Spec2Model ----
(***************************************************************************)
(* Model of analyze.py: a straight-line script that renders graph/graph.dot *)
(* with circo, loads graph/graph.graphml with networkit, prints the node    *)
(* and edge counts, writes a profile report and opens it with xdg-open,     *)
(* then sorts and plots the degree centrality scores.                       *)
(*                                                                          *)
(* The script is one sequential process (pc).  The external programs and    *)
(* the plot window it blocks on are modelled as a second entity (proc)      *)
(* whose exit the script waits for.  The machine the script runs on (which  *)
(* commands are installed, what the files hold) is chosen in Init.          *)
(***************************************************************************)
EXTENDS Integers, Sequences, FiniteSets, Bags, TLC

\* ------------------------------------------------------------------ bounds
\* Largest node count of a GraphML graph the model enumerates.
MaxNodes == 3
\* Largest number of <edge> elements of a GraphML graph the model enumerates.
MaxEdges == 2
\* Largest node count of a DOT graph the model enumerates.
MaxDotNodes == 1

\* ------------------------------------------------------------------- paths
\* A path is its directory components, the file's stem and its extension.
Path(dir, stem, ext) == [dir |-> dir, stem |-> stem, ext |-> ext]

\* "graph/graph.dot"
DotPath == Path(<<"graph">>, "graph", "dot")
\* "graph/graph.ps"
PsPath == Path(<<"graph">>, "graph", "ps")
\* "graph/graph.graphml"
GraphMLPath == Path(<<"graph">>, "graph", "graphml")
\* "graph/graph.html", the argument of xdg_open
ViewerPath == Path(<<"graph">>, "graph", "html")
\* the directory argument of pf.output("HTML", ".")
OutputDir == <<".">>

\* os.path.basename(path).split(".")[0]: the name readGraph gives the graph
GraphName(path) == path.stem

\* directory + "/" + name + ".html": where Profile.output writes the report
\* ("." components name the current directory and are dropped).
ReportPath(directory, name) ==
    Path(SelectSeq(directory, LAMBDA c : c # "."), name, "html")

\* The report of this script: "./graph.html"
HtmlReport == ReportPath(OutputDir, GraphName(GraphMLPath))

AllPaths == {DotPath, PsPath, GraphMLPath, ViewerPath, HtmlReport}

\* ----------------------------------------------------------- file contents
Absent == [kind |-> "absent"]
Malformed == [kind |-> "malformed"]
StaleHtml == [kind |-> "html", of |-> "stale"]

Exists(f, p) == f[p].kind # "absent"

DotFile(k) == [kind |-> "dot", nodes |-> k]

\* the <edge source=u target=v> elements a file of n nodes can hold
EdgeElems(n) == {e \in (1..n) \X (1..n) : e[1] < e[2]}

RECURSIVE SeqsUpTo(_, _)
SeqsUpTo(S, k) ==
    IF k = 0 THEN {<<>>}
    ELSE LET shorter == SeqsUpTo(S, k - 1)
         IN shorter \cup {Append(s, x) : s \in {t \in shorter : Len(t) = k - 1}, x \in S}

GraphMLFile(n, es) == [kind |-> "graphml", nodes |-> n, edges |-> es]

DotContents ==
    {Absent, Malformed} \cup {DotFile(k) : k \in 0..MaxDotNodes}

GraphMLContents ==
    {Absent, Malformed} \cup
    UNION {{GraphMLFile(n, es) : es \in SeqsUpTo(EdgeElems(n), MaxEdges)} : n \in 0..MaxNodes}

\* the commands `from plumbum.cmd import ...` looks up
ImportedCommands == {"circo", "gv2gml", "xdg_open"}

VARIABLES
    installed,   \* the commands found on PATH
    handlerOk,   \* whether a default application for HTML is registered
    fs,          \* the file system: path -> contents
    pc,          \* the script's position
    proc,        \* the external process (or plot window) the script waits on
    retcode,     \* exit code of the last external process
    graph,       \* the networkit graph
    stdout,      \* the lines printed
    pf,          \* the profile object
    dd,          \* the sorted scores
    figure,      \* the matplotlib figure
    writes,      \* history: the paths written, in order
    started,     \* history: the steps started, in order
    finished,    \* history: the steps completed, in order
    exitStatus   \* the script's exit status once it has ended

vars == <<installed, handlerOk, fs, pc, proc, retcode, graph, stdout, pf, dd,
          figure, writes, started, finished, exitStatus>>

NoProc == [cmd |-> "none"]
NoGraph == [loaded |-> FALSE]
NoProfile == [created |-> FALSE]
NoScores == [computed |-> FALSE]
NoFigure == [plotted |-> FALSE]
Running == -1

Init ==
    /\ installed \in SUBSET ImportedCommands
    /\ handlerOk \in BOOLEAN
    /\ \E d \in DotContents, g \in GraphMLContents, h \in {Absent, StaleHtml} :
          fs = [p \in AllPaths |->
                   IF p = DotPath THEN d
                   ELSE IF p = GraphMLPath THEN g
                   ELSE IF p = ViewerPath THEN h
                   ELSE Absent]
    /\ pc = "import"
    /\ proc = NoProc
    /\ retcode = 0
    /\ graph = NoGraph
    /\ stdout = <<>>
    /\ pf = NoProfile
    /\ dd = NoScores
    /\ figure = NoFigure
    /\ writes = <<>>
    /\ started = <<>>
    /\ finished = <<>>
    /\ exitStatus = Running

\* An unhandled exception: the interpreter prints the traceback and exits 1.
Raise ==
    /\ pc' = "failed"
    /\ exitStatus' = 1

\* lines 3-5: the imports; plumbum.cmd raises ImportError for a command that
\* is not on PATH.
Import ==
    /\ pc = "import"
    /\ IF ImportedCommands \subseteq installed
       THEN pc' = "layout" /\ UNCHANGED exitStatus
       ELSE Raise
    /\ UNCHANGED <<installed, handlerOk, fs, proc, retcode, graph, stdout, pf,
                   dd, figure, writes, started, finished>>

\* ------------------------------------------------------------ layout step
\* no file: circo without -o writes the rendering to its standard output
NoPath == Path(<<>>, "", "")

\* the command line without "-o graph/graph.ps"
CircoArgsNoOutput == [T |-> "ps", src |-> DotPath, o |-> NoPath]

\* the command line with the input file given as the -o file
CircoArgsClobber == [T |-> "ps", src |-> DotPath, o |-> DotPath]

\* line 9: circo["-Tps", "graph/graph.dot", "-o", "graph/graph.ps"]
CircoArgs == [T |-> "ps", src |-> DotPath, o |-> PsPath]

\* The PostScript circo emits for a graph: prolog, one page entry per node,
\* trailer.
Render(dot) ==
    [kind |-> "ps",
     body |-> <<"%!PS-Adobe-3.0">> \o [i \in 1..dot.nodes |-> "node"] \o <<"%%EOF">>]

\* the renderer spawned in the background: the script goes on at once
LayoutStartBG ==
    /\ pc = "layout"
    /\ proc.cmd = "none"
    /\ proc' = [cmd |-> "circo", args |-> CircoArgs]
    /\ started' = Append(started, "layout")
    /\ finished' = Append(finished, "layout")
    /\ pc' = "load"
    /\ UNCHANGED <<installed, handlerOk, fs, retcode, graph, stdout, pf, dd,
                   figure, writes, exitStatus>>

\* line 9: the call operator () spawns the command and waits for it.
LayoutStart ==
    /\ pc = "layout"
    /\ proc.cmd = "none"
    /\ proc' = [cmd |-> "circo", args |-> CircoArgs]
    /\ started' = Append(started, "layout")
    /\ pc' = "layout_wait"
    /\ UNCHANGED <<installed, handlerOk, fs, retcode, graph, stdout, pf, dd,
                   figure, writes, finished, exitStatus>>

\* The renderer runs to its end: it reads its input and, when that parses,
\* writes the rendering to the -o file; otherwise it writes nothing and exits
\* with a non-zero code.
CircoExit ==
    /\ proc.cmd = "circo"
    /\ LET input == fs[proc.args.src]
           out == proc.args.o
       IN IF input.kind = "dot"
          THEN /\ retcode' = 0
               /\ IF out # NoPath
                  THEN /\ fs' = [fs EXCEPT ![out] = Render(input)]
                       /\ writes' = Append(writes, out)
                  ELSE UNCHANGED <<fs, writes>>
          ELSE /\ retcode' = 1
               /\ UNCHANGED <<fs, writes>>
    /\ proc' = NoProc
    /\ UNCHANGED <<installed, handlerOk, pc, graph, stdout, pf, dd, figure,
                   started, finished, exitStatus>>

\* the renderer's exit code ignored
LayoutReturnIgnore ==
    /\ pc = "layout_wait"
    /\ proc.cmd = "none"
    /\ pc' = "load"
    /\ finished' = Append(finished, "layout")
    /\ UNCHANGED <<installed, handlerOk, fs, proc, retcode, graph, stdout, pf,
                   dd, figure, writes, started, exitStatus>>

\* line 9: plumbum raises ProcessExecutionError for a non-zero exit code.
LayoutReturn ==
    /\ pc = "layout_wait"
    /\ proc.cmd = "none"
    /\ IF retcode = 0
       THEN /\ pc' = "load"
            /\ finished' = Append(finished, "layout")
            /\ UNCHANGED exitStatus
       ELSE Raise /\ UNCHANGED finished
    /\ UNCHANGED <<installed, handlerOk, fs, proc, retcode, graph, stdout, pf,
                   dd, figure, writes, started>>

\* -------------------------------------------------------------- graph loader
\* Graph.addEdge(u, v) of an undirected graph: each end gets the other as a
\* neighbour and the edge counter grows by one.
addEdge(G, u, v) ==
    [G EXCEPT !.adj = [G.adj EXCEPT ![u] = Append(@, v), ![v] = Append(@, u)],
              !.m = @ + 1]

RECURSIVE addEdges(_, _)
addEdges(G, es) ==
    IF es = <<>> THEN G
    ELSE addEdges(addEdge(G, Head(es)[1], Head(es)[2]), Tail(es))

\* GraphMLReader.read: a node per <node>, an edge per <edge>.
GraphMLRead(file) ==
    addEdges([loaded |-> TRUE, name |-> "", n |-> file.nodes, m |-> 0,
              adj |-> [v \in 1..file.nodes |-> <<>>]],
             file.edges)

\* graphio.readGraph: the graph read from path, named after the file.
readGraph(f, path) == [GraphMLRead(f[path]) EXCEPT !.name = GraphName(path)]

numberOfNodes(G) == G.n
numberOfEdges(G) == G.m

\* the two counts in the wrong order
PrintLineSwapped(G) == <<"Nodes:", numberOfEdges(G), "Edges:", numberOfNodes(G)>>

\* line 14: "Nodes: {} Edges: {}".format(...)
PrintLine(G) == <<"Nodes:", numberOfNodes(G), "Edges:", numberOfEdges(G)>>

\* a missing file read as the empty graph instead of raising
ReadGraphNoCheck ==
    /\ pc = "load"
    /\ started' = Append(started, "load")
    /\ IF fs[GraphMLPath].kind = "graphml"
       THEN /\ graph' = readGraph(fs, GraphMLPath)
            /\ pc' = "print"
            /\ UNCHANGED exitStatus
       ELSE IF fs[GraphMLPath].kind = "absent"
       THEN /\ graph' = [loaded |-> TRUE, name |-> GraphName(GraphMLPath),
                         n |-> 0, m |-> 0, adj |-> <<>>]
            /\ pc' = "print"
            /\ UNCHANGED exitStatus
       ELSE Raise /\ UNCHANGED graph
    /\ UNCHANGED <<installed, handlerOk, fs, proc, retcode, stdout, pf, dd,
                   figure, writes, finished>>

\* line 12: readGraph raises IOError when the path is not a file, and the
\* reader raises on a file that is not GraphML.
ReadGraph ==
    /\ pc = "load"
    /\ started' = Append(started, "load")
    /\ IF fs[GraphMLPath].kind = "graphml"
       THEN /\ graph' = readGraph(fs, GraphMLPath)
            /\ pc' = "print"
            /\ UNCHANGED exitStatus
       ELSE Raise /\ UNCHANGED graph
    /\ UNCHANGED <<installed, handlerOk, fs, proc, retcode, stdout, pf, dd,
                   figure, writes, finished>>

\* line 14
PrintCounts ==
    /\ pc = "print"
    /\ stdout' = Append(stdout, PrintLine(graph))
    /\ finished' = Append(finished, "load")
    /\ pc' = "profile"
    /\ UNCHANGED <<installed, handlerOk, fs, proc, retcode, graph, pf, dd,
                   figure, writes, started, exitStatus>>

\* ----------------------------------------------------------------- profiler
\* the HTML document Profile.output produces
HtmlOf(profile) == [kind |-> "html", of |-> profile.graph.name]

\* line 18
ProfileCreate ==
    /\ pc = "profile"
    /\ started' = Append(started, "profile")
    /\ pf' = [created |-> TRUE, graph |-> graph, preset |-> "minimal"]
    /\ pc' = "output"
    /\ UNCHANGED <<installed, handlerOk, fs, proc, retcode, graph, stdout, dd,
                   figure, writes, finished, exitStatus>>

\* line 19: pf.output("HTML", ".")
ProfileOutput ==
    /\ pc = "output"
    /\ LET target == ReportPath(OutputDir, pf.graph.name)
       IN /\ fs' = [fs EXCEPT ![target] = HtmlOf(pf)]
          /\ writes' = Append(writes, target)
    /\ pc' = "view"
    /\ UNCHANGED <<installed, handlerOk, proc, retcode, graph, stdout, pf, dd,
                   figure, started, finished, exitStatus>>

\* line 20: xdg_open["graph/graph.html"]
XdgOpenArgs == [file |-> ViewerPath]

\* line 20: the call operator () spawns the launcher and waits for it.
ViewStart ==
    /\ pc = "view"
    /\ proc.cmd = "none"
    /\ proc' = [cmd |-> "xdg_open", args |-> XdgOpenArgs]
    /\ pc' = "view_wait"
    /\ UNCHANGED <<installed, handlerOk, fs, retcode, graph, stdout, pf, dd,
                   figure, writes, started, finished, exitStatus>>

\* The launcher exits 2 when its file does not exist, 3 when no application
\* handles it, 0 once the application is launched.
XdgOpenExit ==
    /\ proc.cmd = "xdg_open"
    /\ retcode' = IF ~Exists(fs, proc.args.file) THEN 2
                  ELSE IF handlerOk THEN 0 ELSE 3
    /\ proc' = NoProc
    /\ UNCHANGED <<installed, handlerOk, fs, pc, graph, stdout, pf, dd, figure,
                   writes, started, finished, exitStatus>>

\* the script ending once the viewer is launched
ViewReturnExit ==
    /\ pc = "view_wait"
    /\ proc.cmd = "none"
    /\ IF retcode = 0
       THEN /\ pc' = "done"
            /\ exitStatus' = 0
            /\ finished' = Append(finished, "profile")
       ELSE Raise /\ UNCHANGED finished
    /\ UNCHANGED <<installed, handlerOk, fs, proc, retcode, graph, stdout, pf,
                   dd, figure, writes, started>>

\* line 20: plumbum raises ProcessExecutionError for a non-zero exit code.
ViewReturn ==
    /\ pc = "view_wait"
    /\ proc.cmd = "none"
    /\ IF retcode = 0
       THEN /\ pc' = "centrality"
            /\ finished' = Append(finished, "profile")
            /\ UNCHANGED exitStatus
       ELSE Raise /\ UNCHANGED finished
    /\ UNCHANGED <<installed, handlerOk, fs, proc, retcode, graph, stdout, pf,
                   dd, figure, writes, started>>

\* ---------------------------------------------------------- centrality plot
\* each node counted among its own neighbours
DegreeCentralityClosed(G) == [v \in 1..G.n |-> Len(G.adj[v]) + 1]

\* centrality.DegreeCentrality(G).run().scores(): each node's degree
DegreeCentrality(G) == [v \in 1..G.n |-> Len(G.adj[v])]

\* x placed in the sorted sequence s, before (ascending) or after
\* (descending) the elements it is smaller than
RECURSIVE Insert(_, _, _)
Insert(x, s, reverse) ==
    IF s = <<>> THEN <<x>>
    ELSE IF (IF reverse THEN x > Head(s) ELSE x < Head(s))
         THEN <<x>> \o s
         ELSE <<Head(s)>> \o Insert(x, Tail(s), reverse)

\* sorted(s, reverse=...)
RECURSIVE sorted(_, _)
sorted(s, reverse) ==
    IF s = <<>> THEN <<>>
    ELSE Insert(s[Len(s)], sorted(SubSeq(s, 1, Len(s) - 1), reverse), reverse)

\* sorted without reverse=True
ScoresAscending(G) == sorted(DegreeCentrality(G), FALSE)

\* line 22
Scores(G) == sorted(DegreeCentrality(G), TRUE)

\* line 22
Centrality ==
    /\ pc = "centrality"
    /\ started' = Append(started, "centrality")
    /\ dd' = [computed |-> TRUE, scores |-> Scores(graph)]
    /\ pc' = "plot"
    /\ UNCHANGED <<installed, handlerOk, fs, proc, retcode, graph, stdout, pf,
                   figure, writes, finished, exitStatus>>

\* lines 23-27
Plot ==
    /\ pc = "plot"
    /\ figure' = [plotted |-> TRUE, xscale |-> "log", xlabel |-> "degree",
                  yscale |-> "log", ylabel |-> "number of nodes",
                  line |-> dd.scores]
    /\ pc' = "show"
    /\ UNCHANGED <<installed, handlerOk, fs, proc, retcode, graph, stdout, pf,
                   dd, writes, started, finished, exitStatus>>

\* line 28: plt.show() opens the window and blocks until it is closed.
ShowStart ==
    /\ pc = "show"
    /\ proc.cmd = "none"
    /\ proc' = [cmd |-> "window", args |-> figure]
    /\ pc' = "show_wait"
    /\ UNCHANGED <<installed, handlerOk, fs, retcode, graph, stdout, pf, dd,
                   figure, writes, started, finished, exitStatus>>

\* The user closes the plot window.
WindowClose ==
    /\ proc.cmd = "window"
    /\ proc' = NoProc
    /\ UNCHANGED <<installed, handlerOk, fs, pc, retcode, graph, stdout, pf,
                   dd, figure, writes, started, finished, exitStatus>>

\* line 28: plt.show() returns; the script ends.
ShowReturn ==
    /\ pc = "show_wait"
    /\ proc.cmd = "none"
    /\ finished' = Append(finished, "centrality")
    /\ pc' = "done"
    /\ exitStatus' = 0
    /\ UNCHANGED <<installed, handlerOk, fs, proc, retcode, graph, stdout, pf,
                   dd, figure, writes, started>>

Next ==
    \/ Import
    \/ LayoutStart
    \/ CircoExit
    \/ LayoutReturn
    \/ ReadGraph
    \/ PrintCounts
    \/ ProfileCreate
    \/ ProfileOutput
    \/ ViewStart
    \/ XdgOpenExit
    \/ ViewReturn
    \/ Centrality
    \/ Plot
    \/ ShowStart
    \/ WindowClose
    \/ ShowReturn

Spec == Init /\ [][Next]_vars

\* The script is scheduled until it ends, and every external process and the
\* plot window eventually return.
FairSpec == Spec /\ WF_vars(Next)

\* ------------------------------------------------------------------ claims
\* the four steps, in the order the script runs them
Order == <<"layout", "load", "profile", "centrality">>

Range(s) == {s[i] : i \in DOMAIN s}
IsPrefix(s, t) == Len(s) <= Len(t) /\ SubSeq(t, 1, Len(s)) = s
Written(p) == p \in Range(writes)

\* the step an external process (or the plot window) belongs to
StepOf(cmd) ==
    CASE cmd = "circo" -> "layout"
      [] cmd = "xdg_open" -> "profile"
      [] cmd = "window" -> "centrality"
      [] OTHER -> "none"

Terminal == pc \in {"done", "failed"}
DotMissing == ~Exists(fs, DotPath)
GraphMLMissing == ~Exists(fs, GraphMLPath)

\* C1: the steps start in the order layout, load, profile, centrality; a step
\* starts only once every earlier step has completed, at most one step is
\* active at a time, and an external process runs only while the step that
\* spawned it is the active one.
C1_Sequential ==
    /\ IsPrefix(started, Order)
    /\ IsPrefix(finished, started)
    /\ Len(started) - Len(finished) <= 1
    /\ proc.cmd # "none" =>
          /\ Len(started) = Len(finished) + 1
          /\ started[Len(started)] = StepOf(proc.cmd)

\* C1 witness: the last step's window is open after the three earlier steps
\* and their processes have completed.
C1_Witness ==
    /\ proc.cmd = "window"
    /\ started = Order
    /\ finished = <<"layout", "load", "profile">>

\* C2 as stated: with an input file missing, the script ends without having
\* written graph/graph.ps or the HTML report.
C2_NoArtifact ==
    (Terminal /\ (DotMissing \/ GraphMLMissing)) =>
        /\ pc = "failed"
        /\ ~Written(PsPath)
        /\ ~Written(HtmlReport)

\* C2 amended: with an input file missing the script ends with an error and
\* never writes the HTML report; graph/graph.ps is not written when
\* graph/graph.dot is the missing file, and has been written when the layout
\* step completed and only graph/graph.graphml is missing.
C2_Amended ==
    (Terminal /\ (DotMissing \/ GraphMLMissing)) =>
        /\ pc = "failed"
        /\ exitStatus = 1
        /\ ~Written(HtmlReport)
        /\ DotMissing => ~Written(PsPath)
        /\ ("layout" \in Range(finished) /\ ~DotMissing) =>
              /\ Written(PsPath)
              /\ Exists(fs, PsPath)

\* C2 witness: the script failed on the missing GraphML file after the
\* layout step wrote graph/graph.ps.
C2_Witness ==
    /\ pc = "failed"
    /\ GraphMLMissing
    /\ started = <<"layout", "load">>
    /\ Written(PsPath)

\* a step is about to fail: a command is not installed, an external process
\* has exited with a non-zero code, or the GraphML file is missing or
\* malformed
StepFails ==
    \/ pc = "import" /\ ~(ImportedCommands \subseteq installed)
    \/ pc \in {"layout_wait", "view_wait"} /\ proc.cmd = "none" /\ retcode # 0
    \/ pc = "load" /\ fs[GraphMLPath].kind # "graphml"

\* C3: a failing step ends the script at once with a non-zero status; after
\* the failure nothing runs: no step is started again or anew and no process
\* is spawned.
C3_FailStop ==
    /\ [](pc = "failed" =>
            /\ exitStatus # 0
            /\ exitStatus # Running
            /\ proc.cmd = "none"
            /\ IsPrefix(started, Order)
            /\ Len(started) <= Len(finished) + 1)
    /\ [][/\ StepFails => (pc' = "failed" /\ finished' = finished)
          /\ pc = "failed" => UNCHANGED vars]_vars

\* C3 witness: the viewer launch failed in the third step and the script
\* ended there.
C3_Witness ==
    /\ pc = "failed"
    /\ exitStatus = 1
    /\ started = <<"layout", "load", "profile">>
    /\ finished = <<"layout", "load">>
    /\ retcode # 0

\* C4 as stated: the path handed to the viewer launcher is the path of the
\* report the profiler has just written.
C4_ViewerOpensReport ==
    proc.cmd = "xdg_open" =>
        /\ writes # <<>>
        /\ writes[Len(writes)] = HtmlReport
        /\ proc.args.file = writes[Len(writes)]

\* the degree of node v as the GraphML file describes it
FileDegree(file, v) ==
    Cardinality({i \in DOMAIN file.edges : v \in {file.edges[i][1], file.edges[i][2]}})

BagOf(s) == [x \in Range(s) |-> Cardinality({i \in DOMAIN s : s[i] = x})]

\* C5: the plotted sequence has one score per node of the graph, is sorted
\* in non-increasing order and is a permutation of the nodes' degrees.
C5_SortedScores ==
    figure.plotted =>
        LET s == figure.line
            file == fs[GraphMLPath]
        IN /\ Len(s) = numberOfNodes(graph)
           /\ Len(s) = file.nodes
           /\ \A i \in 1..(Len(s) - 1) : s[i] >= s[i + 1]
           /\ BagOf(s) = BagOf([v \in 1..file.nodes |-> FileDegree(file, v)])

\* C5 witness: a plotted sequence whose scores are not all equal, from a
\* graph whose node order is not already descending.
C5_Witness ==
    /\ figure.plotted
    /\ Len(figure.line) = 3
    /\ figure.line[1] > figure.line[3]
    /\ FileDegree(fs[GraphMLPath], 1) < FileDegree(fs[GraphMLPath], 3)

\* C6: the loader prints one line, holding the file's node count N and edge
\* count E, and has printed it when the load step is complete and before the
\* report is written.
C6_PrintsCounts ==
    LET file == fs[GraphMLPath]
    IN /\ stdout # <<>> =>
             /\ file.kind = "graphml"
             /\ stdout = <<<<"Nodes:", file.nodes, "Edges:", Len(file.edges)>>>>
       /\ ("load" \in Range(finished) \/ Written(HtmlReport) \/ pf.created) =>
             stdout # <<>>

\* C6 witness: the counts of a graph with 3 nodes and 2 edges are printed
\* and the report is written.
C6_Witness ==
    /\ Written(HtmlReport)
    /\ stdout = <<<<"Nodes:", 3, "Edges:", 2>>>>

\* C7: for a graph without edges every score is zero.
C7_ZeroEdges ==
    (dd.computed /\ fs[GraphMLPath].edges = <<>>) =>
        /\ Len(dd.scores) = fs[GraphMLPath].nodes
        /\ \A i \in DOMAIN dd.scores : dd.scores[i] = 0

\* C7 witness: the scores of a graph with nodes and no edges are computed.
C7_Witness ==
    /\ dd.computed
    /\ fs[GraphMLPath].edges = <<>>
    /\ fs[GraphMLPath].nodes >= 2

PsNonEmpty ==
    /\ fs[PsPath].kind = "ps"
    /\ Len(fs[PsPath].body) > 0

\* C8: with a valid graph/graph.dot, a non-empty graph/graph.ps exists once
\* the layout step has completed, and so whenever the GraphML file is read.
C8_PsExists ==
    (fs[DotPath].kind = "dot" /\ ("layout" \in Range(finished) \/ "load" \in Range(started)
                                   \/ pc = "load" \/ graph.loaded)) =>
        /\ PsNonEmpty
        /\ Written(PsPath)

\* C8 witness: the GraphML file is about to be read and the rendering of a
\* one-node DOT graph exists.
C8_Witness ==
    /\ pc = "load"
    /\ fs[DotPath].kind = "dot"
    /\ fs[DotPath].nodes = 1
    /\ PsNonEmpty

\* C9: no step changes graph/graph.dot, graph/graph.graphml or the loaded
\* graph; a step that writes writes graph/graph.ps or the HTML report, and
\* writes a file it has not written before.
C9_Frame ==
    [][/\ fs'[DotPath] = fs[DotPath]
       /\ fs'[GraphMLPath] = fs[GraphMLPath]
       /\ graph.loaded => graph' = graph
       /\ \A p \in AllPaths : fs'[p].kind # fs[p].kind => writes' = Append(writes, p)
       /\ writes' # writes =>
             \E p \in {PsPath, HtmlReport} :
                /\ ~Written(p)
                /\ writes' = Append(writes, p)
                /\ \A q \in AllPaths \ {p} : fs'[q] = fs[q]]_vars

\* C9 witness: the script has ended having written both files, once each.
C9_Witness ==
    /\ pc = "done"
    /\ writes = <<PsPath, HtmlReport>>
    /\ graph.loaded

\* both inputs are valid and every external process will succeed
AllWillSucceed ==
    /\ ImportedCommands \subseteq installed
    /\ fs[DotPath].kind = "dot"
    /\ fs[GraphMLPath].kind = "graphml"
    /\ Exists(fs, ViewerPath)
    /\ handlerOk

Completed ==
    /\ pc = "done"
    /\ exitStatus = 0
    /\ started = Order
    /\ finished = Order
    /\ Written(PsPath)
    /\ Written(HtmlReport)
    /\ Len(writes) = 2

\* C10: when both inputs are valid and every external process returns
\* successfully, the script eventually ends, with each of the four steps run
\* once and both files written; the script never ends successfully earlier.
C10_Terminates ==
    /\ (pc = "import" /\ AllWillSucceed) ~> Completed
    /\ [](pc = "done" => Completed)
    /\ []((AllWillSucceed /\ Terminal) => pc = "done")

\* C10 witness: the script has ended successfully after all four steps.
C10_Witness ==
    /\ Completed
    /\ AllWillSucceed
    /\ proc.cmd = "none"
====
